---- MODULE Spec2Model ----
(***************************************************************************)
(* A model of bqplot.map.Map (src/bqplot/map.py): the widget's twenty      *)
(* synchronized traits, its two CallbackDispatchers and the message        *)
(* handler that routes "click" and "hover" messages of the browser view.   *)
(*                                                                         *)
(* Map is built from two IPython classes that map.py imports (lines 28-30) *)
(* and calls, and whose behaviour is modelled as IPython 3 implements it:  *)
(*                                                                         *)
(*   CallbackDispatcher.register_callback(callback, remove)                *)
(*       if remove and callback in self.callbacks:                         *)
(*           self.callbacks.remove(callback)                               *)
(*       elif not remove and callback not in self.callbacks:               *)
(*           self.callbacks.append(callback)                               *)
(*   CallbackDispatcher.__call__(args)                                     *)
(*       for callback in self.callbacks:                                   *)
(*           try:    local_value = callback(args)                          *)
(*           except Exception as e:   (logged / ip.showtraceback())        *)
(*   TraitType._validate(obj, value)                                       *)
(*       if value is None and self.allow_none: return value                *)
(*       return self.validate(obj, value)    (TraitError on a mismatch)    *)
(*                                                                         *)
(* Python values are modelled as records [t, v, et]: the Python type, a     *)
(* printed form, and for a tuple the types of its elements.                *)
(***************************************************************************)
EXTENDS Naturals, Sequences, FiniteSets

VARIABLES
    attrs,                  \* trait name -> current value (HasTraits._trait_values)
    _ctrl_click_handlers,   \* callbacks of self._ctrl_click_handlers, in order
    _hover_handlers,        \* callbacks of self._hover_handlers, in order
    calls,                  \* history: the on_ctrl_click / on_hover calls made so far
    set_called,             \* history: has any trait been assigned since __init__
    last                    \* the last operation and what its caller observed

vars == <<attrs, _ctrl_click_handlers, _hover_handlers, calls, set_called, last>>

\* Bounds of the exploration.
MaxCalls == 3
MaxChanged == 1

------------------------------------------------------------------------------
(* Python values *)

Py(t, v) == [t |-> t, v |-> v, et |-> <<>>]
PyTuple(v, et) == [t |-> "tuple", v |-> v, et |-> et]
None == Py("NoneType", "None")
NoDefaultSpecified == Py("NoDefaultSpecified", "")

\* Names accepted by the Color trait (compared in lower case by the trait).
_color_names == {"White", "Black", "Red", "Orange"}

\* The values a host program assigns in this model: one or two of each type
\* (the class of the tooltip widget aside).
Values ==
    { Py("float", "1024.0"), Py("bool", "False"),
      Py("unicode", "Red"), Py("unicode", ".3f"),
      Py("dict", "{FRA:1}"), Py("list", "[FRA]"),
      PyTuple("(usmap,nbextensions/bqplot/USStatesMap)", <<"unicode", "unicode">>),
      Py("ColorScale", "ColorScale()"), Py("Axis", "Axis()"), None }

------------------------------------------------------------------------------
(* Trait declarations, map.py lines 95-123 *)

Dict(default_value, allow_none) ==
    [klass |-> "Dict", default_value |-> default_value, allow_none |-> allow_none,
     of |-> <<>>]
Float(default_value) ==
    [klass |-> "Float", default_value |-> default_value, allow_none |-> FALSE,
     of |-> <<>>]
Bool(default_value) ==
    [klass |-> "Bool", default_value |-> default_value, allow_none |-> FALSE,
     of |-> <<>>]
Color(default_value, allow_none) ==
    [klass |-> "Color", default_value |-> default_value, allow_none |-> allow_none,
     of |-> <<>>]
List(default_value) ==
    [klass |-> "List", default_value |-> default_value, allow_none |-> FALSE,
     of |-> <<>>]
Unicode(default_value) ==
    [klass |-> "Unicode", default_value |-> default_value, allow_none |-> FALSE,
     of |-> <<>>]
\* Instance(klass): no default given, None allowed unless allow_none=False is passed.
Instance(klass) ==
    [klass |-> "Instance", default_value |-> NoDefaultSpecified, allow_none |-> TRUE,
     of |-> <<klass>>]
Tuple(traits, default_value) ==
    [klass |-> "Tuple", default_value |-> default_value, allow_none |-> FALSE,
     of |-> traits]

fig_margin == Dict(Py("dict", "{top:0,bottom:20,left:0,right:0}"), FALSE)
min_width == Float(Py("float", "800.0"))
min_height == Float(Py("float", "600.0"))
enable_hover == Bool(Py("bool", "True"))
hovered_styles ==
    Dict(Py("dict", "{hovered_fill:Orange,hovered_stroke:None,hovered_stroke_width:5.0}"),
         TRUE)
stroke_color == Color(NoDefaultSpecified, TRUE)
default_color == Color(NoDefaultSpecified, TRUE)
color == Dict(NoDefaultSpecified, FALSE)
color_scale == Instance("ColorScale")
enable_select == Bool(Py("bool", "True"))
selected == List(Py("list", "[]"))
selected_styles ==
    Dict(Py("dict", "{selected_fill:Red,selected_stroke:None,selected_stroke_width:5.0}"),
         TRUE)
axis == Instance("Axis")
tooltip_color == Color(Py("unicode", "White"), FALSE)
display_tooltip == Bool(Py("bool", "True"))
text_data == Dict(NoDefaultSpecified, FALSE)
text_color == Color(Py("unicode", "Black"), FALSE)
tooltip_format == Unicode(Py("unicode", ".2f"))
tooltip_widget == Instance("DOMWidget")
map_data ==
    Tuple(<<"unicode", "unicode">>,
          PyTuple("(worldmap,nbextensions/bqplot/WorldMapData)", <<"unicode", "unicode">>))

\* The declarations as the docstring (lines 68 and 82) describes two of them:
\* "color: Dict or None", "text_data: Dict or None".
Traits_docstring ==
    [fig_margin |-> fig_margin, min_width |-> min_width, min_height |-> min_height,
     enable_hover |-> enable_hover, hovered_styles |-> hovered_styles,
     stroke_color |-> stroke_color, default_color |-> default_color,
     color |-> Dict(NoDefaultSpecified, TRUE), color_scale |-> color_scale,
     enable_select |-> enable_select, selected |-> selected,
     selected_styles |-> selected_styles, axis |-> axis,
     tooltip_color |-> tooltip_color, display_tooltip |-> display_tooltip,
     text_data |-> Dict(NoDefaultSpecified, TRUE), text_color |-> text_color,
     tooltip_format |-> tooltip_format, tooltip_widget |-> tooltip_widget,
     map_data |-> map_data]

\* The traits of class Map.
Traits ==
    [fig_margin |-> fig_margin, min_width |-> min_width, min_height |-> min_height,
     enable_hover |-> enable_hover, hovered_styles |-> hovered_styles,
     stroke_color |-> stroke_color, default_color |-> default_color,
     color |-> color, color_scale |-> color_scale,
     enable_select |-> enable_select, selected |-> selected,
     selected_styles |-> selected_styles, axis |-> axis,
     tooltip_color |-> tooltip_color, display_tooltip |-> display_tooltip,
     text_data |-> text_data, text_color |-> text_color,
     tooltip_format |-> tooltip_format, tooltip_widget |-> tooltip_widget,
     map_data |-> map_data]

TraitNames == DOMAIN Traits

\* A default that ignores the value the declaration passes.
default_value_of_class(trait) ==
    CASE trait.klass = "Dict" -> Py("dict", "{}")
      [] trait.klass = "List" -> Py("list", "[]")
      [] trait.klass = "Float" -> Py("float", "0.0")
      [] trait.klass = "Bool" -> Py("bool", "False")
      [] trait.klass = "Unicode" -> Py("unicode", "")
      [] trait.klass = "Tuple" -> PyTuple("()", <<>>)
      [] OTHER -> None

\* The value a trait holds before any assignment: the declared default, or, where
\* the declaration passes none, an empty dict for Dict and None for Instance and
\* for the two Color(allow_none=True) traits (docstring line 53: "default: None").
default_value(trait) ==
    IF trait.default_value # NoDefaultSpecified THEN trait.default_value
    ELSE CASE trait.klass = "Dict" -> Py("dict", "{}")
           [] OTHER -> None

\* TraitType._validate: does the trait accept the value.
validate(trait, value) ==
    IF value = None THEN trait.allow_none
    ELSE CASE trait.klass = "Float" -> value.t = "float"
           [] trait.klass = "Bool" -> value.t = "bool"
           [] trait.klass = "Unicode" -> value.t = "unicode"
           [] trait.klass = "Color" -> value.t = "unicode" /\ value.v \in _color_names
           [] trait.klass = "Dict" -> value.t = "dict"
           [] trait.klass = "List" -> value.t = "list"
           [] trait.klass = "Tuple" -> value.t = "tuple" /\ value.et = trait.of
           [] trait.klass = "Instance" -> value.t = trait.of[1]
           [] OTHER -> FALSE

\* The state of the traits after construction.
Defaults == [n \in TraitNames |-> default_value(Traits[n])]

\* The traits whose value differs from the default.
Changed(a) == {n \in TraitNames : a[n] # Defaults[n]}

------------------------------------------------------------------------------
(* Callbacks and messages *)

\* Host callbacks: A and B return, E raises an Exception whenever it is called.
Callbacks == {"A", "B", "E"}
Raising == {"E"}

\* Message contents sent by the view, as Python dicts: sets of <<key, value>>.
Messages ==
    { {<<"event", "click">>, <<"id", "FRA">>},
      {<<"event", "hover">>, <<"id", "ESP">>},
      {<<"event", "zoom">>},
      {<<"id", "DEU">>} }

\* dict.get with a default of 'click': a message without event taken for a click.
get_default_click(content, key, default) ==
    IF \E kv \in content : kv[1] = key
    THEN (CHOOSE kv \in content : kv[1] = key)[2]
    ELSE "click"

\* dict.get(key, default)
get(content, key, default) ==
    IF \E kv \in content : kv[1] = key
    THEN (CHOOSE kv \in content : kv[1] = key)[2]
    ELSE default

Range(s) == {s[i] : i \in 1..Len(s)}

\* list.remove(x): drops the first element equal to x (x is in the list).
RECURSIVE list_remove(_, _)
list_remove(s, x) ==
    IF s = <<>> THEN <<>>
    ELSE IF Head(s) = x THEN Tail(s)
    ELSE <<Head(s)>> \o list_remove(Tail(s), x)

\* register_callback without its two membership tests: list.remove raises
\* ValueError for an absent element, and append adds a second entry.
register_callback_unguarded(callbacks, callback, remove) ==
    IF remove
    THEN IF callback \in Range(callbacks)
         THEN [callbacks |-> list_remove(callbacks, callback), raised |-> "none"]
         ELSE [callbacks |-> callbacks, raised |-> "ValueError"]
    ELSE [callbacks |-> Append(callbacks, callback), raised |-> "none"]

\* register_callback that puts a new callback first.
register_callback_prepend(callbacks, callback, remove) ==
    IF remove /\ callback \in Range(callbacks)
    THEN [callbacks |-> list_remove(callbacks, callback), raised |-> "none"]
    ELSE IF ~remove /\ callback \notin Range(callbacks)
    THEN [callbacks |-> <<callback>> \o callbacks, raised |-> "none"]
    ELSE [callbacks |-> callbacks, raised |-> "none"]

\* CallbackDispatcher.register_callback: the new list and what the call raised.
register_callback(callbacks, callback, remove) ==
    IF remove /\ callback \in Range(callbacks)
    THEN [callbacks |-> list_remove(callbacks, callback), raised |-> "none"]
    ELSE IF ~remove /\ callback \notin Range(callbacks)
    THEN [callbacks |-> Append(callbacks, callback), raised |-> "none"]
    ELSE [callbacks |-> callbacks, raised |-> "none"]

NoCalls == [invoked |-> <<>>, shown |-> <<>>, raised |-> "none"]

\* One call of a callback by a dispatcher: which dispatcher, which callback, and
\* the positional arguments it received.
Invocation(dispatcher, callback, args) ==
    [dispatcher |-> dispatcher, callback |-> callback, args |-> args]

\* __call__ without the try/except: the first exception ends the loop and leaves
\* the dispatcher.
RECURSIVE __call__uncaught(_, _, _)
__call__uncaught(dispatcher, callbacks, args) ==
    IF callbacks = <<>> THEN NoCalls
    ELSE IF Head(callbacks) \in Raising
    THEN [invoked |-> <<Invocation(dispatcher, Head(callbacks), args)>>,
          shown |-> <<>>, raised |-> "Exception"]
    ELSE LET rest == __call__uncaught(dispatcher, Tail(callbacks), args)
         IN  [invoked |-> <<Invocation(dispatcher, Head(callbacks), args)>> \o rest.invoked,
              shown |-> rest.shown, raised |-> rest.raised]

\* __call__ that walks the list from its end.
RECURSIVE __call__reversed(_, _, _)
__call__reversed(dispatcher, callbacks, args) ==
    IF callbacks = <<>> THEN NoCalls
    ELSE LET n == Len(callbacks)
             rest == __call__reversed(dispatcher, SubSeq(callbacks, 1, n - 1), args)
         IN  [invoked |-> <<Invocation(dispatcher, callbacks[n], args)>> \o rest.invoked,
              shown |-> (IF callbacks[n] \in Raising THEN <<callbacks[n]>> ELSE <<>>)
                        \o rest.shown,
              raised |-> rest.raised]

\* CallbackDispatcher.__call__: every callback of the list is called in list order
\* with the same arguments; an Exception a callback raises is caught and shown
\* (logged, or ip.showtraceback()), and the loop goes on.  Result: the calls made,
\* the callbacks whose exception was shown, and what left the dispatcher.
RECURSIVE __call__(_, _, _)
__call__(dispatcher, callbacks, args) ==
    IF callbacks = <<>> THEN NoCalls
    ELSE LET rest == __call__(dispatcher, Tail(callbacks), args)
         IN  [invoked |-> <<Invocation(dispatcher, Head(callbacks), args)>> \o rest.invoked,
              shown |-> (IF Head(callbacks) \in Raising THEN <<Head(callbacks)>> ELSE <<>>)
                        \o rest.shown,
              raised |-> rest.raised]

\* The second statement runs only if the first raised nothing.
Then(r1, r2) ==
    IF r1.raised # "none" THEN r1
    ELSE [invoked |-> r1.invoked \o r2.invoked, shown |-> r1.shown \o r2.shown,
          raised |-> r2.raised]

\* The message without its event entry.
WithoutEvent(content) == {kv \in content : kv[1] # "event"}

\* _handle_button_msg whose second test is missing: the hover handlers run for
\* every message.
_handle_button_msg_no_test(content) ==
    Then(IF get(content, "event", "") = "click"
         THEN __call__("_ctrl_click_handlers", _ctrl_click_handlers, <<"self", content>>)
         ELSE NoCalls,
         __call__("_hover_handlers", _hover_handlers, <<"self", content>>))

\* _handle_button_msg that strips the event entry before forwarding.
_handle_button_msg_stripped(content) ==
    Then(IF get(content, "event", "") = "click"
         THEN __call__("_ctrl_click_handlers", _ctrl_click_handlers,
                       <<"self", WithoutEvent(content)>>)
         ELSE NoCalls,
         IF get(content, "event", "") = "hover"
         THEN __call__("_hover_handlers", _hover_handlers,
                       <<"self", WithoutEvent(content)>>)
         ELSE NoCalls)

\* Map._handle_button_msg(self, _, content), lines 138-142.
_handle_button_msg(content) ==
    Then(IF get(content, "event", "") = "click"
         THEN __call__("_ctrl_click_handlers", _ctrl_click_handlers, <<"self", content>>)
         ELSE NoCalls,
         IF get(content, "event", "") = "hover"
         THEN __call__("_hover_handlers", _hover_handlers, <<"self", content>>)
         ELSE NoCalls)

------------------------------------------------------------------------------
(* The widget *)

\* Map.__init__ without keyword arguments: every trait at its default, two empty
\* dispatchers, _handle_button_msg registered for the view's messages.
Init ==
    /\ attrs = Defaults
    /\ _ctrl_click_handlers = <<>>
    /\ _hover_handlers = <<>>
    /\ calls = <<>>
    /\ set_called = FALSE
    /\ last = [op |-> "__init__"]

Call(name, callback, remove) == [name |-> name, callback |-> callback, remove |-> remove]

\* Map.on_ctrl_click(callback, remove), lines 132-133.
on_ctrl_click(callback, remove) ==
    /\ Len(calls) < MaxCalls
    /\ LET r == register_callback(_ctrl_click_handlers, callback, remove)
       IN  /\ _ctrl_click_handlers' = r.callbacks
           /\ last' = [op |-> "on_ctrl_click", raised |-> r.raised]
    /\ calls' = Append(calls, Call("on_ctrl_click", callback, remove))
    /\ UNCHANGED <<attrs, _hover_handlers, set_called>>

\* on_hover written as a copy of on_ctrl_click with the dispatcher not renamed.
on_hover_pasted(callback, remove) ==
    /\ Len(calls) < MaxCalls
    /\ LET r == register_callback(_ctrl_click_handlers, callback, remove)
       IN  /\ _ctrl_click_handlers' = r.callbacks
           /\ last' = [op |-> "on_hover", raised |-> r.raised]
    /\ calls' = Append(calls, Call("on_hover", callback, remove))
    /\ UNCHANGED <<attrs, _hover_handlers, set_called>>

\* Map.on_hover(callback, remove), lines 135-136.
on_hover(callback, remove) ==
    /\ Len(calls) < MaxCalls
    /\ LET r == register_callback(_hover_handlers, callback, remove)
       IN  /\ _hover_handlers' = r.callbacks
           /\ last' = [op |-> "on_hover", raised |-> r.raised]
    /\ calls' = Append(calls, Call("on_hover", callback, remove))
    /\ UNCHANGED <<attrs, _ctrl_click_handlers, set_called>>

\* A message of the view reaches the handler that __init__ registered with on_msg
\* (line 130).
_handle_msg(content) ==
    /\ LET r == _handle_button_msg(content)
       IN  last' = [op |-> "_handle_msg", content |-> content, invoked |-> r.invoked,
                    shown |-> r.shown, raised |-> r.raised]
    /\ UNCHANGED <<attrs, _ctrl_click_handlers, _hover_handlers, calls, set_called>>

\* An assignment map.<name> = value: validated by the trait, stored if accepted,
\* TraitError and nothing stored otherwise.
__set__(name, value) ==
    /\ LET ok == validate(Traits[name], value)
           new == IF ok THEN [attrs EXCEPT ![name] = value] ELSE attrs
       IN  /\ ok => Cardinality(Changed(new)) <= MaxChanged
           /\ attrs' = new
           /\ last' = [op |-> "__set__", name |-> name, value |-> value,
                       raised |-> IF ok THEN "none" ELSE "TraitError"]
    /\ set_called' = TRUE
    /\ UNCHANGED <<_ctrl_click_handlers, _hover_handlers, calls>>

\* The assignments explored next to the dispatcher operations.
SampleNames == {"min_width", "stroke_color"}
SampleValues == {None, Py("unicode", "Red")}

Next ==
    \/ \E callback \in Callbacks, remove \in BOOLEAN : on_ctrl_click(callback, remove)
    \/ \E callback \in Callbacks, remove \in BOOLEAN : on_hover(callback, remove)
    \/ \E content \in Messages : _handle_msg(content)
    \/ \E name \in SampleNames, value \in SampleValues : __set__(name, value)

Spec == Init /\ [][Next]_vars

\* The trait store alone: every trait assigned every value.
NextAttrs == \E name \in TraitNames, value \in Values : __set__(name, value)

SpecAttrs == Init /\ [][NextAttrs]_vars

------------------------------------------------------------------------------
(* Properties *)

\* The calls made to one of the two registration methods, in order.
CallsOf(name) == SelectSeq(calls, LAMBDA c : c.name = name)

Handlers(name) ==
    IF name = "on_ctrl_click" THEN _ctrl_click_handlers ELSE _hover_handlers

\* The callbacks called by the last message, in the order they were called.
Called == [i \in 1..Len(last.invoked) |-> last.invoked[i].callback]

Delivered(event) == last.op = "_handle_msg" /\ <<"event", event>> \in last.content

Distinct(s) == \A i, j \in 1..Len(s) : s[i] = s[j] => i = j

\* C1. Routing exclusivity: a "click" message calls the callbacks registered with
\* on_ctrl_click, through the ctrl-click dispatcher alone, and no callback that is
\* registered only with on_hover; a "hover" message likewise, the other way round.
C1_RoutingExclusive ==
    /\ Delivered("click") =>
         /\ Range(_ctrl_click_handlers) \subseteq Range(Called)
         /\ \A i \in 1..Len(last.invoked) :
                last.invoked[i].dispatcher = "_ctrl_click_handlers"
         /\ \A cb \in Range(_hover_handlers) \ Range(_ctrl_click_handlers) :
                cb \notin Range(Called)
    /\ Delivered("hover") =>
         /\ Range(_hover_handlers) \subseteq Range(Called)
         /\ \A i \in 1..Len(last.invoked) :
                last.invoked[i].dispatcher = "_hover_handlers"
         /\ \A cb \in Range(_ctrl_click_handlers) \ Range(_hover_handlers) :
                cb \notin Range(Called)

\* A click was delivered while some callback was registered for hover only.
C1_Witness ==
    /\ Delivered("click")
    /\ _ctrl_click_handlers # <<>>
    /\ Range(_hover_handlers) \ Range(_ctrl_click_handlers) # {}

\* C2 as stated. Payload forwarding: every callback called for a recognized message
\* receives (widget, payload), payload being the message without its event field.
C2_PayloadWithoutEvent ==
    last.op = "_handle_msg" =>
        \A i \in 1..Len(last.invoked) :
            last.invoked[i].args = <<"self", WithoutEvent(last.content)>>

\* C2 amended. Every callback called for a recognized message receives exactly two
\* arguments, the widget and the whole message content, event field included.
C2_PayloadIsContent ==
    last.op = "_handle_msg" =>
        \A i \in 1..Len(last.invoked) :
            /\ Len(last.invoked[i].args) = 2
            /\ last.invoked[i].args[1] = "self"
            /\ last.invoked[i].args[2] = last.content
            /\ <<"event", get(last.content, "event", "")>> \in last.invoked[i].args[2]

\* A registered on hover, {"event": "hover", "id": "ESP"} delivered, A called once.
C2_Witness ==
    /\ last.op = "_handle_msg"
    /\ last.content = {<<"event", "hover">>, <<"id", "ESP">>}
    /\ _hover_handlers = <<"A">>
    /\ Len(last.invoked) = 1
    /\ last.invoked[1].callback = "A"

\* The callbacks of the calls in s, in call order.
CallbacksOf(s) == [i \in 1..Len(s) |-> s[i].callback]

\* Since construction the method was only used to register, each callback once.
RegisteredInOrder(name) ==
    /\ \A i \in 1..Len(CallsOf(name)) : ~CallsOf(name)[i].remove
    /\ Distinct(CallbacksOf(CallsOf(name)))

\* C3. Dispatch order: N distinct callbacks registered on one dispatcher in the order
\* c1..cN, with no removal, are called by one matching message in exactly that order,
\* each exactly once, before the message handler returns.
C3_DispatchOrder ==
    /\ Delivered("click") /\ RegisteredInOrder("on_ctrl_click")
         => Called = CallbacksOf(CallsOf("on_ctrl_click"))
    /\ Delivered("hover") /\ RegisteredInOrder("on_hover")
         => Called = CallbacksOf(CallsOf("on_hover"))

\* Three callbacks registered for clicks, the raising one first, and a click delivered.
C3_Witness ==
    /\ Delivered("click")
    /\ RegisteredInOrder("on_ctrl_click")
    /\ Len(CallsOf("on_ctrl_click")) = 3
    /\ CallsOf("on_ctrl_click")[1].callback = "E"
    /\ CallsOf("on_ctrl_click")[2].callback = "B"

\* The reference sequence: deleting the first entry equal to x, if there is one.
RefDeleteFirst(s, x) ==
    IF \E i \in 1..Len(s) : s[i] = x
    THEN LET i == CHOOSE k \in 1..Len(s) : s[k] = x /\ \A j \in 1..(k - 1) : s[j] # x
         IN  SubSeq(s, 1, i - 1) \o SubSeq(s, i + 1, Len(s))
    ELSE s

\* Replaying calls on the reference sequence in which remove=false always appends.
RECURSIVE ReplayAppend(_)
ReplayAppend(s) ==
    IF s = <<>> THEN <<>>
    ELSE LET before == ReplayAppend(SubSeq(s, 1, Len(s) - 1))
             c == s[Len(s)]
         IN  IF c.remove THEN RefDeleteFirst(before, c.callback)
             ELSE Append(before, c.callback)

\* Replaying calls on the reference sequence in which remove=false appends unless an
\* equal entry is present.
RECURSIVE ReplayAppendIfAbsent(_)
ReplayAppendIfAbsent(s) ==
    IF s = <<>> THEN <<>>
    ELSE LET before == ReplayAppendIfAbsent(SubSeq(s, 1, Len(s) - 1))
             c == s[Len(s)]
         IN  IF c.remove THEN RefDeleteFirst(before, c.callback)
             ELSE IF \E i \in 1..Len(before) : before[i] = c.callback THEN before
             ELSE Append(before, c.callback)

\* C4 as stated. Registration refinement: each dispatcher's list equals the replay of
\* the same calls on a sequence where remove=false always appends (duplicates kept)
\* and remove=true deletes the first equal entry.
C4_RefinesAppend ==
    \A name \in {"on_ctrl_click", "on_hover"} :
        Handlers(name) = ReplayAppend(CallsOf(name))

\* C4 amended. Each dispatcher's list, empty at construction, equals the replay of
\* the same calls on a sequence where remove=false appends unless an equal entry is
\* already present (registering a callback twice yields one entry) and remove=true
\* deletes the first equal entry.
C4_RefinesAppendIfAbsent ==
    \A name \in {"on_ctrl_click", "on_hover"} :
        Handlers(name) = ReplayAppendIfAbsent(CallsOf(name))

\* A registered for hover twice, then B: the list is A, B.
C4_Witness ==
    /\ calls = <<Call("on_hover", "A", FALSE), Call("on_hover", "A", FALSE),
                 Call("on_hover", "B", FALSE)>>
    /\ _hover_handlers = <<"A", "B">>

\* A step that delivers a message whose event is neither "click" nor "hover".
UnknownEventStep ==
    /\ last'.op = "_handle_msg"
    /\ <<"event", "click">> \notin last'.content
    /\ <<"event", "hover">> \notin last'.content

\* C5. Unknown event: a message whose event is neither "click" nor "hover", or that
\* has no event field, calls no callback of either dispatcher, raises nothing and
\* leaves the traits and both callback lists unchanged.
C5_UnknownEventIgnored ==
    [][UnknownEventStep =>
          /\ last'.invoked = <<>>
          /\ last'.shown = <<>>
          /\ last'.raised = "none"
          /\ UNCHANGED <<attrs, _ctrl_click_handlers, _hover_handlers>>]_vars

\* A message without an event field was delivered while both dispatchers held callbacks.
C5_Witness ==
    /\ last.op = "_handle_msg"
    /\ last.content = {<<"id", "DEU">>}
    /\ _ctrl_click_handlers # <<>>
    /\ _hover_handlers # <<>>
    /\ last.invoked = <<>>

\* A step that calls the registration method `name`.
RegistrationStep(name) ==
    /\ Len(calls') = Len(calls) + 1
    /\ calls'[Len(calls')].name = name

\* C6. Idempotent remove: on_ctrl_click(cb, remove=True) or on_hover(cb, remove=True)
\* for a callback that is not in that dispatcher raises nothing and leaves the
\* dispatcher's list unchanged.
C6_RemoveAbsentIsNoOp ==
    [][\A name \in {"on_ctrl_click", "on_hover"} :
          (/\ RegistrationStep(name)
           /\ calls'[Len(calls')].remove
           /\ calls'[Len(calls')].callback \notin Range(Handlers(name)))
          => /\ Handlers(name)' = Handlers(name)
             /\ last'.raised = "none"]_vars

\* A registered for hover, then removed twice in a row.
C6_Witness ==
    /\ calls = <<Call("on_hover", "A", FALSE), Call("on_hover", "A", TRUE),
                 Call("on_hover", "A", TRUE)>>
    /\ last.op = "on_hover"
    /\ last.raised = "none"
    /\ _hover_handlers = <<>>

\* A callback that raises was called by the last message.
RaisingCallbackCalled ==
    /\ last.op = "_handle_msg"
    /\ \E i \in 1..Len(last.invoked) : last.invoked[i].callback \in Raising

\* C7 as stated. Callback error propagation: the error of a failing callback is caught
\* neither by the dispatcher nor by the handler and reaches whoever delivered the message.
C7_ErrorSurfaces ==
    RaisingCallbackCalled => last.raised # "none"

\* C7 amended. An Exception raised by a callback during the dispatch of a matching
\* message is caught and shown by the dispatcher: every callback of the list is still
\* called and nothing reaches whoever delivered the message.
C7_ErrorCaughtByDispatcher ==
    RaisingCallbackCalled =>
        /\ last.raised = "none"
        /\ \A i \in 1..Len(last.invoked) :
               last.invoked[i].callback \in Raising
                   => last.invoked[i].callback \in Range(last.shown)
        /\ \A event \in {"click", "hover"} :
               Delivered(event) =>
                   Len(last.invoked) =
                       Len(IF event = "click" THEN _ctrl_click_handlers ELSE _hover_handlers)

\* The raising callback was called first and another callback after it.
C7_Witness ==
    /\ last.op = "_handle_msg"
    /\ Len(last.invoked) >= 2
    /\ last.invoked[1].callback = "E"
    /\ last.invoked[2].callback = "A"

\* The declared kind of every field, and the fields declared nullable.
Kind ==
    [fig_margin |-> "mapping", min_width |-> "number", min_height |-> "number",
     enable_hover |-> "boolean", hovered_styles |-> "mapping",
     stroke_color |-> "color", default_color |-> "color", color |-> "mapping",
     color_scale |-> "reference to ColorScale", enable_select |-> "boolean",
     selected |-> "ordered-sequence", selected_styles |-> "mapping",
     axis |-> "reference to Axis", tooltip_color |-> "color",
     display_tooltip |-> "boolean", text_data |-> "mapping", text_color |-> "color",
     tooltip_format |-> "string", tooltip_widget |-> "reference to DOMWidget",
     map_data |-> "pair(string,string)"]

Nullable ==
    {"hovered_styles", "stroke_color", "default_color", "color_scale",
     "selected_styles", "axis", "tooltip_widget"}

\* The kinds a value has; null has none.
KindsOf(value) ==
    CASE value.t = "float" -> {"number"}
      [] value.t = "bool" -> {"boolean"}
      [] value.t = "unicode" ->
            IF value.v \in {"White", "Black", "Red", "Orange"}
            THEN {"string", "color"} ELSE {"string"}
      [] value.t = "dict" -> {"mapping"}
      [] value.t = "list" -> {"ordered-sequence"}
      [] value.t = "tuple" ->
            IF value.et = <<"unicode", "unicode">> THEN {"pair(string,string)"} ELSE {}
      [] value.t = "ColorScale" -> {"reference to ColorScale"}
      [] value.t = "Axis" -> {"reference to Axis"}
      [] value.t = "DOMWidget" -> {"reference to DOMWidget"}
      [] OTHER -> {}

\* The value is of the field's declared kind, or null in a nullable field.
OfDeclaredKind(field, value) ==
    \/ value = None /\ field \in Nullable
    \/ value # None /\ Kind[field] \in KindsOf(value)

\* A step that assigns last'.value to the trait last'.name.
SetStep == last'.op = "__set__"

C10_DispatchersIndependent ==
    [][/\ RegistrationStep("on_ctrl_click")
            => UNCHANGED <<_hover_handlers, attrs>>
       /\ RegistrationStep("on_hover")
            => UNCHANGED <<_ctrl_click_handlers, attrs>>]_vars

\* A on both dispatchers, B on hover only, E on neither, and a trait changed.
C10_Witness ==
    /\ Range(_ctrl_click_handlers) = {"A"}
    /\ Range(_hover_handlers) = {"A", "B"}
    /\ attrs["stroke_color"] = Py("unicode", "Red")
    /\ last.op = "on_hover"
====
